---- MODULE Spec2Model ----
(***************************************************************************)
(* State-machine model of GBVISoftcoreParameters, the parameter container  *)
(* of the softcore GB/VI implicit-solvent model: three per-atom array      *)
(* slots with an ownership flag each, the Born-radius switching-function   *)
(* configuration and the cutoff / periodic-box state.                      *)
(*                                                                         *)
(* Arrays are heap objects named by an id; NULL is the null pointer.  The  *)
(* heap records, for every array, whether it is live, its contents and how *)
(* many times the container called delete[] on it.  Real numbers are exact *)
(* rationals <<numerator, denominator>> for the switching-function scalars *)
(* and the dielectric constants, and integers for distances and box widths.*)
(***************************************************************************)
EXTENDS Integers, Sequences, FiniteSets, TLC

\* ------------------------------------------------------------------ bounds
MaxAtoms == 1      \* numberOfAtoms ranges over 1..MaxAtoms
MaxVal   == 1      \* array elements range over 0..MaxVal
NumExt   == 1      \* arrays owned by the caller (live before construction)
MaxAlloc == 2      \* arrays the container may allocate with new[]
MaxDist  == 2      \* cutoff distances range over 0..MaxDist
MaxLimit == 3      \* numerators and denominators of the spline scalars

\* --------------------------------------------------------------- constants
NULL == 0

NoScaling     == 0
Tanh          == 1
QuinticSpline == 2

Slots == {"scaledRadii", "gammaParameters", "bornRadiusScaleFactors"}

Vals   == 0..MaxVal
ExtIds == 1..NumExt
NewIds == (NumExt + 1)..(NumExt + MaxAlloc)
Ids    == ExtIds \cup NewIds

\* RealOpenMMVector arguments: every length up to one more than the largest
\* atom count, so that a vector longer than the array occurs.
RECURSIVE SeqsUpTo(_)
SeqsUpTo(n) == IF n = 0 THEN {<<>>}
               ELSE SeqsUpTo(n - 1) \cup [1..n -> Vals]
Vectors == SeqsUpTo(MaxAtoms + 1)

VARIABLES
  atomCount,                      \* ImplicitSolventParameters::getNumberOfAtoms()
  soluteDielectric,               \* ImplicitSolventParameters::getSoluteDielectric()
  solventDielectric,              \* ImplicitSolventParameters::getSolventDielectric()
  ptr,                            \* _scaledRadii, _gammaParameters, _bornRadiusScaleFactors
  own,                            \* _ownScaledRadii, _ownGammaParameters, _ownBornRadiusScaleFactors
  heap,                           \* the arrays: state, contents, delete[] count
  cutoff, periodic,               \* bool cutoff, periodic
  cutoffDistance,                 \* RealOpenMM cutoffDistance
  periodicBoxSize,                \* RealOpenMM periodicBoxSize[3]
  method,                         \* _bornRadiusScalingSoftcoreMethod
  quinticLowerLimitFactor,        \* _quinticLowerLimitFactor
  quinticUpperBornRadiusLimit,    \* _quinticUpperBornRadiusLimit
  quinticUpperSplineLimit,        \* _quinticUpperSplineLimit
  status,                         \* "live", "destroyed" or "aborted" (failed assert)
  oob,                            \* an element was written past the end of an array
  shared,                         \* a caller handed a slot an array another slot held
  last                            \* the last call: operation, slot, argument, result, delete[] calls

baseVars   == <<soluteDielectric, solventDielectric>>
slotVars   == <<ptr, own, heap, oob, shared>>
cutoffVars == <<cutoff, periodic, cutoffDistance, periodicBoxSize>>
switchVars == <<method, quinticLowerLimitFactor, quinticUpperBornRadiusLimit,
                quinticUpperSplineLimit>>
vars == <<atomCount, baseVars, ptr, own, heap, cutoff, periodic, cutoffDistance,
          periodicBoxSize, method, quinticLowerLimitFactor,
          quinticUpperBornRadiusLimit, quinticUpperSplineLimit, status, oob,
          shared, last>>

\* ------------------------------------------------------------------- heap
Unallocated == [state |-> "unallocated", data |-> <<>>, rel |-> 0]

\* new RealOpenMM[n]: the next unused array id
CanAlloc(h) == \E a \in NewIds : h[a].state = "unallocated"
NewId(h)    == CHOOSE a \in NewIds :
                 /\ h[a].state = "unallocated"
                 /\ \A b \in NewIds : h[b].state = "unallocated" => a <= b

NewArray(h, a, contents) ==
  [h EXCEPT ![a] = [state |-> "live", data |-> contents, rel |-> 0]]

\* delete[] p: nothing for the null pointer
DeleteArray(h, p) ==
  IF p = NULL THEN h
  ELSE [h EXCEPT ![p] = [state |-> "freed", data |-> <<>>, rel |-> @.rel + 1]]

Deleted(p) == IF p = NULL THEN <<>> ELSE <<p>>

\* memset( array, 0, sizeof( RealOpenMM )*n )
Memset0(n) == [i \in 1..n |-> 0]

\* the copy loop stopping one element early (ii < size() - 1)
CopyLoopStopsEarly(before, vector) ==
  [i \in 1..Len(before) |-> IF i < Len(vector) THEN vector[i] ELSE before[i]]

\* for( ii = 0; ii < size(); ii++ ) array[ii] = vector[ii], on an array of
\* n elements whose contents before the loop are `before`; element ii of the
\* code is index ii + 1 here.
CopyLoop(before, vector) ==
  [i \in 1..Len(before) |-> IF i <= Len(vector) THEN vector[i] ELSE before[i]]

\* the indices the loop writes that are not elements of the array
CopyLoopOutside(n, vector) == {i \in 1..Len(vector) : i > n}

\* new RealOpenMM[n] leaves the elements uninitialised: any contents.  Only
\* the elements the copy loop of a `len`-element vector does not overwrite
\* are left to vary; the overwritten ones are written as 0 here.
Uninitialised(n, len) == {g \in [1..n -> Vals] : \A i \in 1..n : i <= len => g[i] = 0}

\* an array deleted twice: undefined behaviour, after which nothing is modelled
DoubleFreed == \E a \in Ids : heap[a].rel >= 2

Running == status = "live" /\ ~oob /\ ~DoubleFreed

\* what a caller can pass as RealOpenMM*: the null pointer or a live array
\* (its own, or one a get() returned)
CallerArrays == {NULL} \cup {a \in Ids : heap[a].state = "live"}

HeldElsewhere(s, a) == a # NULL /\ \E t \in Slots \ {s} : ptr[t] = a

Call(op, s, arg, ret, freed) ==
  [op |-> op, slot |-> s, arg |-> arg, ret |-> ret, freed |-> freed]

\* ------------------------------------------------------ owned-array slots
\* The three slots have textually identical accessors, modelled once with the
\* slot as a parameter.  The float* overloads exist only under
\* RealOpenMMType == 0 and are left out.
\* get() that allocates without setting the ownership flag
getArrayNotOwned(s) ==
  /\ Running
  /\ IF ptr[s] = NULL
       THEN /\ CanAlloc(heap)
            /\ ptr'  = [ptr EXCEPT ![s] = NewId(heap)]
            /\ heap' = NewArray(heap, NewId(heap), Memset0(atomCount))
            /\ UNCHANGED own
       ELSE UNCHANGED <<ptr, own, heap>>
  /\ last' = Call("get", s, NULL, ptr'[s], <<>>)
  /\ UNCHANGED <<atomCount, baseVars, oob, shared, status, cutoffVars, switchVars>>

\* getScaledRadii / getGammaParameters / getBornRadiusScaleFactors
getArray(s) ==
  /\ Running
  /\ IF ptr[s] = NULL
       THEN /\ CanAlloc(heap)
            /\ ptr'  = [ptr EXCEPT ![s] = NewId(heap)]
            /\ own'  = [own EXCEPT ![s] = 1]
            /\ heap' = NewArray(heap, NewId(heap), Memset0(atomCount))
       ELSE UNCHANGED <<ptr, own, heap>>
  /\ last' = Call("get", s, NULL, ptr'[s], <<>>)
  /\ UNCHANGED <<atomCount, baseVars, oob, shared, status, cutoffVars, switchVars>>

\* setOwn...() that releases the array when the flag is cleared
setOwnReleasesOnClear(s, flag) ==
  /\ Running
  /\ own'  = [own EXCEPT ![s] = flag]
  /\ heap' = IF flag = 0 THEN DeleteArray(heap, ptr[s]) ELSE heap
  /\ last' = Call("setOwn", s, flag, NULL, <<>>)
  /\ UNCHANGED <<atomCount, baseVars, ptr, oob, shared, status, cutoffVars, switchVars>>

\* setOwnScaledRadii / setOwnGammaParameters / setOwnBornRadiusScaleFactors
setOwn(s, flag) ==
  /\ Running
  /\ own'  = [own EXCEPT ![s] = flag]
  /\ last' = Call("setOwn", s, flag, NULL, <<>>)
  /\ UNCHANGED <<atomCount, baseVars, ptr, heap, oob, shared, status, cutoffVars, switchVars>>

\* set() that releases an owned array without comparing it with the argument
setArrayAlwaysReleases(s, p) ==
  /\ Running
  /\ LET release == own[s] # 0
     IN  /\ heap' = IF release THEN DeleteArray(heap, ptr[s]) ELSE heap
         /\ own'  = IF release THEN [own EXCEPT ![s] = 0] ELSE own
         /\ last' = Call("set", s, p, NULL,
                         IF release THEN Deleted(ptr[s]) ELSE <<>>)
  /\ ptr'    = [ptr EXCEPT ![s] = p]
  /\ shared' = (shared \/ HeldElsewhere(s, p))
  /\ UNCHANGED <<atomCount, baseVars, oob, status, cutoffVars, switchVars>>

\* set() that releases the previous array but leaves the flag set
setArrayKeepsFlag(s, p) ==
  /\ Running
  /\ LET release == own[s] # 0 /\ ptr[s] # p
     IN  /\ heap' = IF release THEN DeleteArray(heap, ptr[s]) ELSE heap
         /\ last' = Call("set", s, p, NULL,
                         IF release THEN Deleted(ptr[s]) ELSE <<>>)
  /\ ptr'    = [ptr EXCEPT ![s] = p]
  /\ shared' = (shared \/ HeldElsewhere(s, p))
  /\ UNCHANGED <<atomCount, baseVars, own, oob, status, cutoffVars, switchVars>>

\* set() that calls delete[] on its argument instead of on the field
setArrayDeletesArgument(s, p) ==
  /\ Running
  /\ LET release == own[s] # 0 /\ ptr[s] # p
     IN  /\ heap' = IF release THEN DeleteArray(heap, p) ELSE heap
         /\ own'  = IF release THEN [own EXCEPT ![s] = 0] ELSE own
         /\ last' = Call("set", s, p, NULL, IF release THEN Deleted(p) ELSE <<>>)
  /\ ptr'    = [ptr EXCEPT ![s] = p]
  /\ shared' = (shared \/ HeldElsewhere(s, p))
  /\ UNCHANGED <<atomCount, baseVars, oob, status, cutoffVars, switchVars>>

\* setScaledRadii( RealOpenMM* ) and its two copies
setArray(s, p) ==
  /\ Running
  /\ LET release == own[s] # 0 /\ ptr[s] # p
     IN  /\ heap' = IF release THEN DeleteArray(heap, ptr[s]) ELSE heap
         /\ own'  = IF release THEN [own EXCEPT ![s] = 0] ELSE own
         /\ last' = Call("set", s, p, NULL,
                         IF release THEN Deleted(ptr[s]) ELSE <<>>)
  /\ ptr'    = [ptr EXCEPT ![s] = p]
  /\ shared' = (shared \/ HeldElsewhere(s, p))
  /\ UNCHANGED <<atomCount, baseVars, oob, status, cutoffVars, switchVars>>

\* set-from-vector that zero-fills the new array before the copy loop
setVectorZeroFills(s, vector, garbage) ==
  /\ Running
  /\ LET release == own[s] # 0 /\ ptr[s] # NULL
         h1      == IF release THEN DeleteArray(heap, ptr[s]) ELSE heap
     IN  /\ CanAlloc(h1)
         /\ heap' = NewArray(h1, NewId(h1), CopyLoop(Memset0(atomCount), vector))
         /\ ptr'  = [ptr EXCEPT ![s] = NewId(h1)]
         /\ last' = Call("setVector", s, Len(vector), NULL,
                         IF release THEN Deleted(ptr[s]) ELSE <<>>)
  /\ own' = [own EXCEPT ![s] = 1]
  /\ oob' = (CopyLoopOutside(atomCount, vector) # {})
  /\ UNCHANGED <<atomCount, baseVars, shared, status, cutoffVars, switchVars>>

\* setScaledRadii( const RealOpenMMVector& ) and its two copies; `garbage`
\* is what the freshly allocated array holds before the copy loop
setVector(s, vector, garbage) ==
  /\ Running
  /\ LET release == own[s] # 0 /\ ptr[s] # NULL
         h1      == IF release THEN DeleteArray(heap, ptr[s]) ELSE heap
     IN  /\ CanAlloc(h1)
         /\ heap' = NewArray(h1, NewId(h1), CopyLoop(garbage, vector))
         /\ ptr'  = [ptr EXCEPT ![s] = NewId(h1)]
         /\ last' = Call("setVector", s, Len(vector), NULL,
                         IF release THEN Deleted(ptr[s]) ELSE <<>>)
  /\ own' = [own EXCEPT ![s] = 1]
  /\ oob' = (CopyLoopOutside(atomCount, vector) # {})
  /\ UNCHANGED <<atomCount, baseVars, shared, status, cutoffVars, switchVars>>

getScaledRadii            == getArray("scaledRadii")
getGammaParameters        == getArray("gammaParameters")
getBornRadiusScaleFactors == getArray("bornRadiusScaleFactors")

setOwnScaledRadii            == \E f \in 0..1 : setOwn("scaledRadii", f)
setOwnGammaParameters        == \E f \in 0..1 : setOwn("gammaParameters", f)
setOwnBornRadiusScaleFactors == \E f \in 0..1 : setOwn("bornRadiusScaleFactors", f)

setScaledRadii ==
  \E p \in CallerArrays : setArray("scaledRadii", p)
setGammaParameters ==
  \E p \in CallerArrays : setArray("gammaParameters", p)
setBornRadiusScaleFactors ==
  \E p \in CallerArrays : setArray("bornRadiusScaleFactors", p)

setScaledRadiiVector ==
  \E v \in Vectors : \E g \in Uninitialised(atomCount, Len(v)) :
     setVector("scaledRadii", v, g)
setGammaParametersVector ==
  \E v \in Vectors : \E g \in Uninitialised(atomCount, Len(v)) :
     setVector("gammaParameters", v, g)
setBornRadiusScaleFactorsVector ==
  \E v \in Vectors : \E g \in Uninitialised(atomCount, Len(v)) :
     setVector("bornRadiusScaleFactors", v, g)

\* ~GBVISoftcoreParameters: only _scaledRadii is guarded by its flag
Destructor ==
  /\ Running
  /\ LET p1 == IF own["scaledRadii"] # 0 THEN ptr["scaledRadii"] ELSE NULL
         p2 == ptr["gammaParameters"]
         p3 == ptr["bornRadiusScaleFactors"]
     IN  /\ heap' = DeleteArray(DeleteArray(DeleteArray(heap, p1), p2), p3)
         /\ last' = Call("destroy", "none", NULL, NULL,
                         Deleted(p1) \o Deleted(p2) \o Deleted(p3))
  /\ status' = "destroyed"
  /\ UNCHANGED <<atomCount, baseVars, ptr, own, oob, shared, cutoffVars, switchVars>>

\* an array of the caller, as it is before the container sees it
CallerArray(n) == [state |-> "live", data |-> [i \in 1..n |-> MaxVal], rel |-> 0]

\* ------------------------------------------------------------ construction
\* The constructor leaves cutoffDistance and periodicBoxSize unset: they hold
\* whatever the memory held.
Dists  == 0..MaxDist
Widths == 0..(2 * MaxDist)
Boxes  == [1..3 -> Widths]

InitSlots(atomCounts) ==
  /\ atomCount \in atomCounts
  /\ ptr = [s \in Slots |-> NULL]
  /\ own = [s \in Slots |-> 0]
  /\ heap = [a \in Ids |-> IF a \in ExtIds THEN CallerArray(atomCount)
                                            ELSE Unallocated]
  /\ oob = FALSE
  /\ shared = FALSE
  /\ status = "live"
  /\ last = Call("construct", "none", NULL, NULL, <<>>)

SlotNext ==
  \/ getScaledRadii \/ getGammaParameters \/ getBornRadiusScaleFactors
  \/ setOwnScaledRadii \/ setOwnGammaParameters \/ setOwnBornRadiusScaleFactors
  \/ setScaledRadii \/ setGammaParameters \/ setBornRadiusScaleFactors
  \/ setScaledRadiiVector \/ setGammaParametersVector
  \/ setBornRadiusScaleFactorsVector
  \/ Destructor

\* ------------------------------------------------- switching-function config
\* Real scalars are exact positive rationals <<numerator, denominator>> in
\* lowest terms.
RECURSIVE IntPow(_, _)
IntPow(b, e) == IF e = 0 THEN 1 ELSE b * IntPow(b, e - 1)

\* POW( x, e ) for an integral exponent e
POW(x, e) == IF e >= 0 THEN <<IntPow(x[1], e), IntPow(x[2], e)>>
             ELSE <<IntPow(x[2], -e), IntPow(x[1], -e)>>

RECURSIVE Gcd(_, _)
Gcd(a, b) == IF b = 0 THEN a ELSE Gcd(b, a % b)

\* the values callers pass for the two quintic-spline scalars
Reals == {<<n, d>> : n \in 1..MaxLimit, d \in 1..MaxLimit} \cup {<<5, 1>>, <<4, 5>>}
Limits == {x \in Reals : Gcd(x[1], x[2]) = 1}

Methods == {NoScaling, Tanh, QuinticSpline}

getQuinticLowerLimitFactor ==
  /\ Running
  /\ last' = Call("getQuinticLowerLimitFactor", "none", NULL,
                  quinticLowerLimitFactor, <<>>)
  /\ UNCHANGED <<atomCount, baseVars, slotVars, status, cutoffVars, switchVars>>

\* the lower-limit setter recomputing the spline limit from its argument
setQuinticLowerLimitFactorWritesSpline(v) ==
  /\ Running
  /\ quinticLowerLimitFactor' = v
  /\ quinticUpperSplineLimit' = POW(v, -3)
  /\ last' = Call("setQuinticLowerLimitFactor", "none", v, NULL, <<>>)
  /\ UNCHANGED <<atomCount, baseVars, slotVars, status, cutoffVars, method,
                 quinticUpperBornRadiusLimit>>

setQuinticLowerLimitFactor(v) ==
  /\ Running
  /\ quinticLowerLimitFactor' = v
  /\ last' = Call("setQuinticLowerLimitFactor", "none", v, NULL, <<>>)
  /\ UNCHANGED <<atomCount, baseVars, slotVars, status, cutoffVars, method,
                 quinticUpperBornRadiusLimit, quinticUpperSplineLimit>>

getQuinticUpperBornRadiusLimit ==
  /\ Running
  /\ last' = Call("getQuinticUpperBornRadiusLimit", "none", NULL,
                  quinticUpperBornRadiusLimit, <<>>)
  /\ UNCHANGED <<atomCount, baseVars, slotVars, status, cutoffVars, switchVars>>

\* the spline limit computed with exponent -2
InverseSquare(limit) == POW(limit, -2)

\* the value setQuinticUpperBornRadiusLimit stores in _quinticUpperSplineLimit
UpperSplineLimitFor(limit) == POW(limit, -3)

setQuinticUpperBornRadiusLimit(v) ==
  /\ Running
  /\ quinticUpperBornRadiusLimit' = v
  /\ quinticUpperSplineLimit'     = UpperSplineLimitFor(v)
  /\ last' = Call("setQuinticUpperBornRadiusLimit", "none", v, NULL, <<>>)
  /\ UNCHANGED <<atomCount, baseVars, slotVars, status, cutoffVars, method,
                 quinticLowerLimitFactor>>

getQuinticUpperSplineLimit ==
  /\ Running
  /\ last' = Call("getQuinticUpperSplineLimit", "none", NULL,
                  quinticUpperSplineLimit, <<>>)
  /\ UNCHANGED <<atomCount, baseVars, slotVars, status, cutoffVars, switchVars>>

getBornRadiusScalingSoftcoreMethod ==
  /\ Running
  /\ last' = Call("getBornRadiusScalingSoftcoreMethod", "none", NULL, method, <<>>)
  /\ UNCHANGED <<atomCount, baseVars, slotVars, status, cutoffVars, switchVars>>

setBornRadiusScalingSoftcoreMethod(m) ==
  /\ Running
  /\ method' = m
  /\ last' = Call("setBornRadiusScalingSoftcoreMethod", "none", m, NULL, <<>>)
  /\ UNCHANGED <<atomCount, baseVars, slotVars, status, cutoffVars, quinticLowerLimitFactor,
                 quinticUpperBornRadiusLimit, quinticUpperSplineLimit>>

\* a constructor that stores 5.0 in the field and leaves the spline limit unset
InitSwitchSplineUnset ==
  /\ method = NoScaling
  /\ quinticLowerLimitFactor = <<4, 5>>
  /\ quinticUpperBornRadiusLimit = <<5, 1>>
  /\ quinticUpperSplineLimit \in Limits

\* the constructor: NoScaling, 0.8, and setQuinticUpperBornRadiusLimit( 5.0 )
InitSwitch ==
  /\ method = NoScaling
  /\ quinticLowerLimitFactor = <<4, 5>>
  /\ quinticUpperBornRadiusLimit = <<5, 1>>
  /\ quinticUpperSplineLimit = UpperSplineLimitFor(<<5, 1>>)

SwitchNext ==
  \/ getQuinticLowerLimitFactor
  \/ \E v \in Limits : setQuinticLowerLimitFactor(v)
  \/ getQuinticUpperBornRadiusLimit
  \/ \E v \in Limits : setQuinticUpperBornRadiusLimit(v)
  \/ getQuinticUpperSplineLimit
  \/ getBornRadiusScalingSoftcoreMethod
  \/ \E m \in Methods : setBornRadiusScalingSoftcoreMethod(m)

\* ---------------------------------------------------- cutoff / periodic box
\* enabling the cutoff again drops the periodic flag
setUseCutoffClearsPeriodic(distance) ==
  /\ Running
  /\ cutoff' = TRUE
  /\ cutoffDistance' = distance
  /\ periodic' = FALSE
  /\ last' = Call("setUseCutoff", "none", distance, NULL, <<>>)
  /\ UNCHANGED <<atomCount, baseVars, slotVars, status, switchVars, periodicBoxSize>>

setUseCutoff(distance) ==
  /\ Running
  /\ cutoff' = TRUE
  /\ cutoffDistance' = distance
  /\ last' = Call("setUseCutoff", "none", distance, NULL, <<>>)
  /\ UNCHANGED <<atomCount, baseVars, slotVars, status, switchVars, periodic, periodicBoxSize>>

getUseCutoff ==
  /\ Running
  /\ last' = Call("getUseCutoff", "none", NULL, cutoff, <<>>)
  /\ UNCHANGED <<atomCount, baseVars, slotVars, status, cutoffVars, switchVars>>

getCutoffDistance ==
  /\ Running
  /\ last' = Call("getCutoffDistance", "none", NULL, cutoffDistance, <<>>)
  /\ UNCHANGED <<atomCount, baseVars, slotVars, status, cutoffVars, switchVars>>

\* only the first width is compared with the cutoff distance
PeriodicAssertsFirstWidthOnly(boxSize) ==
  /\ cutoff
  /\ boxSize[1] >= 2 * cutoffDistance

\* the widths have to exceed twice the cutoff distance
PeriodicAssertsStrict(boxSize) ==
  /\ cutoff
  /\ boxSize[1] > 2 * cutoffDistance
  /\ boxSize[2] > 2 * cutoffDistance
  /\ boxSize[3] > 2 * cutoffDistance

\* the four assert()s of setPeriodic
PeriodicAsserts(boxSize) ==
  /\ cutoff
  /\ boxSize[1] >= 2 * cutoffDistance
  /\ boxSize[2] >= 2 * cutoffDistance
  /\ boxSize[3] >= 2 * cutoffDistance

\* the call as recorded in last, with the periodic flag it found
PeriodicCall(boxSize) ==
  [op |-> "setPeriodic", slot |-> "none", arg |-> boxSize, ret |-> NULL,
   freed |-> <<>>, wasPeriodic |-> periodic]

\* a container that is already periodic is refused as well
setPeriodicOnce(boxSize) ==
  /\ Running
  /\ IF PeriodicAsserts(boxSize) /\ ~periodic
       THEN /\ periodic' = TRUE
            /\ periodicBoxSize' = boxSize
            /\ UNCHANGED status
       ELSE /\ status' = "aborted"
            /\ UNCHANGED <<periodic, periodicBoxSize>>
  /\ last' = PeriodicCall(boxSize)
  /\ UNCHANGED <<atomCount, baseVars, slotVars, switchVars, cutoff, cutoffDistance>>

\* a failed assert aborts the process before any field is written (the
\* asserts are taken as compiled in, i.e. NDEBUG is not defined)
setPeriodic(boxSize) ==
  /\ Running
  /\ IF PeriodicAsserts(boxSize)
       THEN /\ periodic' = TRUE
            /\ periodicBoxSize' = boxSize
            /\ UNCHANGED status
       ELSE /\ status' = "aborted"
            /\ UNCHANGED <<periodic, periodicBoxSize>>
  /\ last' = PeriodicCall(boxSize)
  /\ UNCHANGED <<atomCount, baseVars, slotVars, switchVars, cutoff, cutoffDistance>>

getPeriodic ==
  /\ Running
  /\ last' = Call("getPeriodic", "none", NULL, periodic, <<>>)
  /\ UNCHANGED <<atomCount, baseVars, slotVars, status, cutoffVars, switchVars>>

getPeriodicBox ==
  /\ Running
  /\ last' = Call("getPeriodicBox", "none", NULL, periodicBoxSize, <<>>)
  /\ UNCHANGED <<atomCount, baseVars, slotVars, status, cutoffVars, switchVars>>

InitCutoff(unsetDistances, unsetBoxes) ==
  /\ cutoff = FALSE
  /\ periodic = FALSE
  /\ cutoffDistance \in unsetDistances
  /\ periodicBoxSize \in unsetBoxes

CutoffNext ==
  \/ \E d \in Dists : setUseCutoff(d)
  \/ getUseCutoff
  \/ getCutoffDistance
  \/ \E b \in Boxes : setPeriodic(b)
  \/ getPeriodic
  \/ getPeriodicBox

\* --------------------------------------------------------------------- tau
\* The dielectric constants belong to the base object
\* (ImplicitSolventParameters); they are exact non-negative rationals.
Abs(n) == IF n < 0 THEN -n ELSE n

\* the rational n / d (d > 0) in lowest terms
Ratio(n, d) == LET g == Gcd(Abs(n), d) IN <<n \div g, d \div g>>

Divide(a, b) == Ratio(a[1] * b[2], a[2] * b[1])
Minus(a, b)  == Ratio(a[1] * b[2] - b[1] * a[2], a[2] * b[2])

zero == <<0, 1>>
one  == <<1, 1>>

Dielectrics == {zero, one, <<2, 1>>, <<3, 1>>, <<1, 2>>, <<157, 2>>}

setSoluteDielectric(e) ==
  /\ Running
  /\ soluteDielectric' = e
  /\ last' = Call("setSoluteDielectric", "none", e, NULL, <<>>)
  /\ UNCHANGED <<atomCount, solventDielectric, slotVars, status, cutoffVars,
                 switchVars>>

setSolventDielectric(e) ==
  /\ Running
  /\ solventDielectric' = e
  /\ last' = Call("setSolventDielectric", "none", e, NULL, <<>>)
  /\ UNCHANGED <<atomCount, soluteDielectric, slotVars, status, cutoffVars,
                 switchVars>>

\* the operands exchanged: 1/e0 - 1/e1
tauSolventFirst(solute, solvent) ==
  IF solute # zero /\ solvent # zero
    THEN Minus(Divide(one, solvent), Divide(one, solute))
    ELSE zero

tau(solute, solvent) ==
  IF solute # zero /\ solvent # zero
    THEN Minus(Divide(one, solute), Divide(one, solvent))
    ELSE zero

getTau ==
  /\ Running
  /\ last' = Call("getTau", "none", NULL,
                  tau(soluteDielectric, solventDielectric), <<>>)
  /\ UNCHANGED <<atomCount, baseVars, slotVars, status, cutoffVars, switchVars>>

InitBase(soluteDielectrics, solventDielectrics) ==
  /\ soluteDielectric \in soluteDielectrics
  /\ solventDielectric \in solventDielectrics

TauNext ==
  \/ \E e \in Dielectrics : setSoluteDielectric(e)
  \/ \E e \in Dielectrics : setSolventDielectric(e)
  \/ getTau

\* ----------------------------------------------------------- specifications
Init ==
  /\ InitSlots(1..MaxAtoms)
  /\ InitBase(Dielectrics, Dielectrics)
  /\ InitCutoff(Dists, Boxes)
  /\ InitSwitch

Next == SlotNext \/ SwitchNext \/ CutoffNext \/ TauNext

Spec == Init /\ [][Next]_vars

\* One component at a time, the fields of the others as constructed: the
\* unset cutoff fields holding zero, one atom where no array is touched, the
\* dielectrics of a solute in water.
ZeroBox == [i \in 1..3 |-> 0]
Water   == <<157, 2>>

SlotInit ==
  /\ InitSlots(1..MaxAtoms)
  /\ InitBase({one}, {Water})
  /\ InitCutoff({0}, {ZeroBox})
  /\ InitSwitch
SwitchInit ==
  /\ InitSlots({1})
  /\ InitBase({one}, {Water})
  /\ InitCutoff({0}, {ZeroBox})
  /\ InitSwitch
CutoffInit ==
  /\ InitSlots({1})
  /\ InitBase({one}, {Water})
  /\ InitCutoff(Dists, Boxes)
  /\ InitSwitch
TauInit ==
  /\ InitSlots({1})
  /\ InitBase(Dielectrics, Dielectrics)
  /\ InitCutoff({0}, {ZeroBox})
  /\ InitSwitch

SlotSpec   == SlotInit /\ [][SlotNext]_vars
SwitchSpec == SwitchInit /\ [][SwitchNext]_vars
CutoffSpec == CutoffInit /\ [][CutoffNext]_vars
TauSpec    == TauInit /\ [][TauNext]_vars

\* A container whose setOwn... operations are never called.
NoSetOwnNext ==
  \/ getScaledRadii \/ getGammaParameters \/ getBornRadiusScaleFactors
  \/ setScaledRadii \/ setGammaParameters \/ setBornRadiusScaleFactors
  \/ setScaledRadiiVector \/ setGammaParametersVector
  \/ setBornRadiusScaleFactorsVector
  \/ Destructor

NoSetOwnSpec == SlotInit /\ [][NoSetOwnNext]_vars

\* ------------------------------------------------------------------ claims
Released(seq, a) == \E i \in 1..Len(seq) : seq[i] = a
Pointers == Ids \cup {NULL}

\* C1: the destructor releases an array exactly if a slot holding it has its
\* ownership flag set; an array held only with the flag clear is not released.
C1_DestructorReleasesIffOwned ==
  status = "destroyed" =>
    \A s \in Slots : ptr[s] # NULL =>
      (Released(last.freed, ptr[s])
         <=> \E t \in Slots : ptr[t] = ptr[s] /\ own[t] # 0)

\* C2: whenever the periodic flag is set, the cutoff flag is set and every
\* stored box width is at least twice the stored cutoff distance.
C2_PeriodicImpliesCutoffAndBox ==
  periodic => /\ cutoff
              /\ \A i \in 1..3 : periodicBoxSize[i] >= 2 * cutoffDistance

\* C3: set(a) with a different from the slot's array makes a the slot's
\* array with the flag clear, releases the previous array once if the flag
\* was set and not at all if it was clear, and leaves a as it was.
C3_SetReplacesAndReleasesOwned ==
  [][(last'.op = "set" /\ ptr[last'.slot] # last'.arg) =>
       LET s == last'.slot
           p == last'.arg
       IN  /\ ptr'[s] = p
           /\ own'[s] = 0
           /\ (own[s] # 0 /\ ptr[s] # NULL) =>
                 /\ heap'[ptr[s]].rel = heap[ptr[s]].rel + 1
                 /\ last'.freed = <<ptr[s]>>
           /\ (own[s] = 0 /\ ptr[s] # NULL) =>
                 /\ heap'[ptr[s]] = heap[ptr[s]]
                 /\ last'.freed = <<>>
           /\ p # NULL => heap'[p] = heap[p]
           /\ \A a \in Ids \ {ptr[s]} : heap'[a] = heap[a]]_vars

C3_Witness ==
  /\ last.op = "set"
  /\ last.arg # NULL
  /\ ptr[last.slot] = last.arg
  /\ own[last.slot] = 0
  /\ heap[last.arg].state = "live"
  /\ Len(last.freed) = 1
  /\ last.freed[1] # last.arg

\* C4: setFromSequence(values) with at most atomCount values ends with the
\* flag set and the slot holding a newly allocated atomCount-element array
\* whose first values.size() elements are the values; the previous array is
\* released once if the flag was set and the array present, and a borrowed
\* previous array is neither released nor written.
C4_SetVectorAllocatesAndCopies ==
  [][(last'.op = "setVector" /\ last'.arg <= atomCount) =>
       LET s == last'.slot
       IN  \A v \in Vectors : \A g \in [1..atomCount -> Vals] :
             (Len(v) = last'.arg /\ setVector(s, v, g)) =>
               /\ own'[s] = 1
               /\ ptr'[s] \in Ids
               /\ heap[ptr'[s]].state = "unallocated"
               /\ heap'[ptr'[s]].state = "live"
               /\ Len(heap'[ptr'[s]].data) = atomCount
               /\ \A i \in 1..Len(v) : heap'[ptr'[s]].data[i] = v[i]
               /\ (own[s] # 0 /\ ptr[s] # NULL) =>
                     /\ heap'[ptr[s]].rel = heap[ptr[s]].rel + 1
                     /\ last'.freed = <<ptr[s]>>
               /\ (own[s] = 0 /\ ptr[s] # NULL) =>
                     /\ heap'[ptr[s]] = heap[ptr[s]]
                     /\ last'.freed = <<>>
               /\ ~oob']_vars

C4_Witness ==
  /\ last.op = "setVector"
  /\ last.arg = atomCount
  /\ Len(last.freed) = 1
  /\ own[last.slot] = 1
  /\ heap[ptr[last.slot]].state = "live"
  /\ \E i \in 1..atomCount : heap[ptr[last.slot]].data[i] # 0

\* C5: setFromSequence(values) with more than atomCount values writes no
\* element outside the atomCount-element array it allocated.
C5_LongVectorWritesNothingOutside ==
  (last.op = "setVector" /\ last.arg > atomCount) => ~oob

\* C6 as stated: after setScaledRadii from a vector shorter than atomCount,
\* the elements from index values.size() on are zero.
C6_ShortVectorTailIsZero ==
  (last.op = "setVector" /\ last.slot = "scaledRadii" /\ last.arg < atomCount) =>
    \A i \in 1..atomCount :
      i > last.arg => heap[ptr["scaledRadii"]].data[i] = 0

\* C6 as amended: after setScaledRadii from a vector shorter than atomCount
\* the elements below values.size() are the values, and every element from
\* index values.size() on is not written: it holds what the newly allocated
\* array held, which need not be zero.
C6_ShortVectorTailIsUnwritten ==
  [][(last'.op = "setVector" /\ last'.slot = "scaledRadii"
        /\ last'.arg < atomCount) =>
       \A v \in Vectors : \A g \in [1..atomCount -> Vals] :
         (Len(v) = last'.arg /\ setVector("scaledRadii", v, g)) =>
           \A i \in 1..atomCount :
             heap'[ptr'["scaledRadii"]].data[i]
               = IF i <= Len(v) THEN v[i] ELSE g[i]]_vars

C6_Witness ==
  /\ last.op = "setVector"
  /\ last.slot = "scaledRadii"
  /\ last.arg < atomCount
  /\ heap[ptr["scaledRadii"]].data[atomCount] # 0

\* C7: get() on a slot without an array allocates atomCount zeros, sets the
\* flag and returns that array; get() on a slot with an array returns it and
\* changes neither the arrays, the slot's pointer nor its flag.
C7_GetAllocatesZeroedOnce ==
  [][last'.op = "get" =>
       LET s == last'.slot
       IN  /\ ptr[s] = NULL =>
                 /\ ptr'[s] \in Ids
                 /\ heap[ptr'[s]].state = "unallocated"
                 /\ heap'[ptr'[s]].state = "live"
                 /\ Len(heap'[ptr'[s]].data) = atomCount
                 /\ \A i \in 1..atomCount : heap'[ptr'[s]].data[i] = 0
                 /\ own'[s] = 1
                 /\ last'.ret = ptr'[s]
           /\ ptr[s] # NULL =>
                 /\ last'.ret = ptr[s]
                 /\ UNCHANGED <<ptr, own, heap>>]_vars

C7_Witness ==
  /\ last.op = "get"
  /\ last.ret \in NewIds
  /\ ptr[last.slot] = last.ret
  /\ own[last.slot] = 1
  /\ heap[last.ret].data = [i \in 1..atomCount |-> 0]

\* the array a slot holds is live and was never released by the container
SlotsValid ==
  \A s \in Slots : ptr[s] # NULL =>
    heap[ptr[s]].state = "live" /\ heap[ptr[s]].rel = 0

\* C8 as stated: on a live container no slot holds an array the container
\* has released, and get() returns a present, unreleased array.
C8_SlotsNeverDangle ==
  status = "live" =>
    /\ SlotsValid
    /\ last.op = "get" => last.ret # NULL /\ last.ret = ptr[last.slot]

\* C8 as amended: the same, as long as no caller has handed a slot an array
\* that another slot held at that moment.
C8_SlotsNeverDangleUnlessShared ==
  (status = "live" /\ ~shared) =>
    /\ SlotsValid
    /\ last.op = "get" => last.ret # NULL /\ last.ret = ptr[last.slot]

C8_Witness ==
  /\ status = "live"
  /\ ~shared
  /\ last.op = "get"
  /\ last.ret \in ExtIds
  /\ \E a \in Ids : heap[a].state = "freed"

\* C9: the container releases no array more than once.
C9_NoDoubleFree ==
  \A a \in Ids : heap[a].rel <= 1

\* C10: the stored spline limit is the stored Born-radius limit to the power
\* -3 (their product with the cube is 1), and setUpperBornRadiusLimit(v)
\* stores v.
C10_SplineLimitIsInverseCube ==
  /\ quinticUpperSplineLimit[1] * quinticUpperBornRadiusLimit[1]
       * quinticUpperBornRadiusLimit[1] * quinticUpperBornRadiusLimit[1]
     = quinticUpperSplineLimit[2] * quinticUpperBornRadiusLimit[2]
       * quinticUpperBornRadiusLimit[2] * quinticUpperBornRadiusLimit[2]
  /\ last.op = "setQuinticUpperBornRadiusLimit" =>
       quinticUpperBornRadiusLimit = last.arg
  /\ last.op = "getQuinticUpperSplineLimit" =>
       last.ret = quinticUpperSplineLimit

C10_Witness ==
  /\ last.op = "getQuinticUpperSplineLimit"
  /\ quinticUpperBornRadiusLimit = <<2, 3>>
  /\ last.ret = <<27, 8>>

\* ------------------------------------------------ claims on cutoff / periodic
\* the precondition of setPeriodic, as its documentation states it
WideEnough(boxSize) == \A i \in 1..3 : boxSize[i] >= 2 * cutoffDistance

\* C11: a setPeriodic call made while the cutoff is not enabled, or with a box
\* width below twice the cutoff distance, aborts: the periodic flag and the
\* stored box are not modified, and nothing runs after the abort.
C11_FailedSetPeriodicAborts ==
  [][/\ status # "aborted"
     /\ (last'.op = "setPeriodic" /\ ~(cutoff /\ WideEnough(last'.arg)))
          => (status' = "aborted" /\ UNCHANGED <<periodic, periodicBoxSize>>)]_vars

C11_Witness ==
  /\ last.op = "setPeriodic"
  /\ status = "aborted"
  /\ cutoff
  /\ cutoffDistance = 1
  /\ last.arg = [i \in 1..3 |-> IF i = 3 THEN 1 ELSE 2]

\* C12: a setPeriodic call made with the cutoff enabled and every box width
\* at least twice the cutoff distance (equality included) succeeds: the
\* periodic flag is true, the stored box is the argument, the cutoff flag and
\* distance are unchanged; getPeriodicBox returns the stored box.
C12_SetPeriodicStoresBox ==
  [][/\ (last'.op = "setPeriodic" /\ cutoff /\ WideEnough(last'.arg))
          => /\ status' = "live"
             /\ periodic'
             /\ periodicBoxSize' = last'.arg
             /\ UNCHANGED <<cutoff, cutoffDistance>>
     /\ last'.op = "getPeriodicBox" => last'.ret = periodicBoxSize]_vars

C12_Witness ==
  /\ last.op = "setPeriodic"
  /\ status = "live"
  /\ periodic
  /\ cutoffDistance = 1
  /\ last.arg = [i \in 1..3 |-> 2]
  /\ periodicBoxSize = last.arg

\* C13: once the cutoff is enabled, no operation changes the stored cutoff
\* distance.
C13_CutoffDistanceImmutable ==
  [][cutoff => cutoffDistance' = cutoffDistance]_vars

\* C14: setPeriodic is accepted only with the cutoff enabled and the periodic
\* flag still clear; in any other state it aborts and the stored box stays.
C14_SetPeriodicOnlyFromCutoffOnly ==
  [][last'.op = "setPeriodic" =>
       /\ status' = "live" => (cutoff /\ ~periodic /\ periodic')
       /\ (~cutoff \/ periodic)
            => (status' = "aborted" /\ UNCHANGED periodicBoxSize)]_vars

\* C14, amended: setPeriodic is accepted exactly when the cutoff is enabled
\* and the box is wide enough, whether or not the container is periodic
\* already; accepted, it sets the periodic flag and replaces the stored box;
\* without the cutoff it aborts and the stored box stays.
C14_SetPeriodicNeedsCutoffAndWidth ==
  [][last'.op = "setPeriodic" =>
       /\ status' = "live" <=> (cutoff /\ WideEnough(last'.arg))
       /\ status' = "live" => (periodic' /\ periodicBoxSize' = last'.arg)
       /\ ~cutoff => (status' = "aborted" /\ UNCHANGED periodicBoxSize)]_vars

C14_Witness ==
  /\ last.op = "setPeriodic"
  /\ last.wasPeriodic
  /\ status = "live"
  /\ periodicBoxSize = last.arg

\* C15: both flags are false at construction; once the cutoff flag is true
\* it stays true, once the periodic flag is true it stays true.
C15_FlagsMonotonic ==
  /\ ~cutoff /\ ~periodic
  /\ [][(cutoff => cutoff') /\ (periodic => periodic')]_vars

C15_Witness ==
  /\ last.op = "setUseCutoff"
  /\ cutoff
  /\ periodic

\* --------------------------------------------------------------- other claims
\* every field but the record of the last call
fields == <<atomCount, baseVars, slotVars, cutoffVars, switchVars, status>>

\* C16: getTau returns 0 when the solute or the solvent dielectric is zero,
\* otherwise 1/solute - 1/solvent of the dielectrics as they are at the call;
\* it writes no field.
C16_TauOfCurrentDielectrics ==
  [][last'.op = "getTau" =>
       LET e1 == soluteDielectric
           e0 == solventDielectric
           t  == last'.ret
       IN  /\ t[2] > 0
           /\ IF e1[1] = 0 \/ e0[1] = 0
                THEN t[1] = 0
                ELSE t[1] * (e1[1] * e0[1])
                       = t[2] * (e1[2] * e0[1] - e0[2] * e1[1])
           /\ UNCHANGED fields]_vars

C16_Witness ==
  /\ last.op = "getTau"
  /\ soluteDielectric = <<1, 1>>
  /\ solventDielectric = <<157, 2>>
  /\ last.ret = <<155, 157>>

\* C17: a freshly constructed container has its three slots absent with the
\* ownership flag clear, method NoScaling, lower limit factor 0.8, upper Born
\* radius limit 5.0, upper spline limit 0.008 and both cutoff flags false.
C17_ConstructedState ==
  last.op = "construct" =>
    /\ \A s \in Slots : ptr[s] = NULL /\ own[s] = 0
    /\ method = NoScaling
    /\ quinticLowerLimitFactor = <<4, 5>>
    /\ quinticUpperBornRadiusLimit = <<5, 1>>
    /\ quinticUpperSplineLimit = <<1, 125>>
    /\ ~cutoff
    /\ ~periodic

C17_Witness ==
  /\ last.op = "construct"
  /\ status = "live"
  /\ quinticUpperSplineLimit = <<1, 125>>
  /\ cutoffDistance = MaxDist

\* C18: setOwn...(flag) changes the ownership flag of its slot and nothing
\* else: the slot's array reference, every array's state and contents and
\* every other field are unchanged, and nothing is released.
C18_SetOwnChangesOnlyFlag ==
  [][last'.op = "setOwn" =>
       /\ own' = [own EXCEPT ![last'.slot] = last'.arg]
       /\ last'.freed = <<>>
       /\ UNCHANGED <<atomCount, baseVars, ptr, heap, oob, shared, status,
                      cutoffVars, switchVars>>]_vars

C18_Witness ==
  /\ last.op = "setOwn"
  /\ last.arg = 0
  /\ own[last.slot] = 0
  /\ ptr[last.slot] \in NewIds
  /\ heap[ptr[last.slot]].state = "live"

\* C19: only setQuinticUpperBornRadiusLimit writes the upper Born radius limit
\* and the upper spline limit; setQuinticLowerLimitFactor changes only the
\* lower limit factor, setBornRadiusScalingSoftcoreMethod only the method, and
\* the getters change nothing.
SwitchGetters ==
  {"getQuinticLowerLimitFactor", "getQuinticUpperBornRadiusLimit",
   "getQuinticUpperSplineLimit", "getBornRadiusScalingSoftcoreMethod"}

C19_SwitchSettersWriteOwnField ==
  [][/\ last'.op # "setQuinticUpperBornRadiusLimit"
          => UNCHANGED <<quinticUpperBornRadiusLimit, quinticUpperSplineLimit>>
     /\ last'.op = "setQuinticLowerLimitFactor"
          => /\ quinticLowerLimitFactor' = last'.arg
             /\ UNCHANGED <<method, quinticUpperBornRadiusLimit,
                            quinticUpperSplineLimit>>
     /\ last'.op = "setBornRadiusScalingSoftcoreMethod"
          => /\ method' = last'.arg
             /\ UNCHANGED <<quinticLowerLimitFactor,
                            quinticUpperBornRadiusLimit,
                            quinticUpperSplineLimit>>
     /\ last'.op \in SwitchGetters => UNCHANGED fields]_vars

C19_Witness ==
  /\ last.op = "setQuinticLowerLimitFactor"
  /\ quinticLowerLimitFactor = <<1, 3>>
  /\ quinticUpperBornRadiusLimit = <<2, 1>>
  /\ quinticUpperSplineLimit = <<1, 8>>

\* C20: when no setOwn... operation is ever called, every array the container
\* allocated has been released exactly once when the destructor has run.
C20_AllocatedReleasedOnce ==
  status = "destroyed" =>
    \A a \in NewIds : heap[a].state # "unallocated" => heap[a].rel = 1

\* C21: set(a) with a already the slot's array releases nothing and leaves
\* the array reference, the ownership flag and every array unchanged; a
\* second set(a) right after a set(a) therefore changes none of them.
C21_SetCurrentArrayIsNoOp ==
  [][(last'.op = "set" /\ ptr[last'.slot] = last'.arg) =>
       /\ last'.freed = <<>>
       /\ UNCHANGED <<ptr, own, heap, atomCount, baseVars, oob, status,
                      cutoffVars, switchVars>>]_vars

C21_Witness ==
  /\ last.op = "set"
  /\ last.arg \in NewIds
  /\ ptr[last.slot] = last.arg
  /\ own[last.slot] = 1
  /\ heap[last.arg].state = "live"
  /\ last.freed = <<>>

\* C22: a get, set, setOwn... or vector set on one slot leaves the array
\* reference, the ownership flag and the array of the other two slots
\* unchanged, writes no element outside its own array, and leaves the
\* switching-function configuration and the cutoff / periodic state unchanged.
SlotCalls == {"get", "set", "setOwn", "setVector"}

C22_SlotsIndependent ==
  [][last'.op \in SlotCalls =>
       /\ \A t \in Slots \ {last'.slot} :
            /\ ptr'[t] = ptr[t]
            /\ own'[t] = own[t]
            /\ ptr[t] # NULL => heap'[ptr[t]] = heap[ptr[t]]
       /\ ~oob'
       /\ UNCHANGED <<switchVars, cutoffVars>>]_vars
====
